---- MODULE Spec2Model ----
(***************************************************************************)
(* A model of the streamlit-profiler: the column typing loop of Home.py,   *)
(* its helpers to_numeric_resilient and looks_categorical, the coercion of *)
(* a new file to the baseline's families and the key-free row comparison   *)
(* of pages/05_Incremental Profiling.py, and the table objects the pages   *)
(* keep in st.session_state.                                               *)
(*                                                                         *)
(* Cells are sequences of one-character strings, so that trimming,         *)
(* lower-casing, symbol removal and number parsing are computed the way    *)
(* the code computes them.  A column is a bag of cells (cell -> number of  *)
(* rows holding it): every operation of the typing loop is either          *)
(* element-wise or an aggregate (count, mean, median, value_counts), so    *)
(* the order of the rows does not take part in it.  Ratios are compared in *)
(* exact arithmetic (cross-multiplied percentages).                        *)
(***************************************************************************)
EXTENDS Integers, Sequences, FiniteSets

VARIABLES
    cells,        \* the column as read from the CSV: cell -> row count
    dtype,        \* df[col].dtype
    vals,         \* df[col] now: raw cell -> the value its rows hold
    conversions,  \* the conversions list of the typing loop
    pc,           \* which step runs next
    result,       \* what looks_categorical returned (call specification)
    base_df,      \* BASE, the baseline table of the row comparison
    new_df,       \* NEW, the new table of the row comparison
    diff,         \* outcome of the row comparison
    session       \* st.session_state: the table each key refers to

vars == <<cells, dtype, vals, conversions, pc, result, base_df, new_df, diff, session>>

----------------------------------------------------------------------------
(* Bounds of the model *)

\* rows of a column in the typing specification
MaxRows == 10
\* rows of a column in the numeric-rule specification
MaxNumRows == 20
\* distinct raw cells in one column
MaxKinds == 3
\* rows of each table in the row comparison
MaxDiffRows == 3
\* looks_categorical call, large columns: distinct frequent values, the rows of
\* each, and the distinct values that occur once
MaxHead == 10
MaxFreq == 22
MaxTail == 51
\* looks_categorical call, small columns: each of the above, and missing cells
MaxSmall == 4
MaxNulls == 2

----------------------------------------------------------------------------
(* Program constants, as percentages where the code writes a fraction *)

DATETIME_RATE == 60
BOOL_RATE == 90
NUMERIC_RATE == 90
NONBLANK_RATE == 5
ID_RATIO == 50
CODE_RATE == 30
CODE_MINLEN == 6
SHORT_LEN == 25
ABS_LOW == 50
REL_LOW == 20
TOP_N == 10
COVERAGE == 80
MIN_SIGNALS == 3

----------------------------------------------------------------------------
(* Strings *)

\* a missing cell (NaN / pd.NA); no text cell equals it
NA == <<"<NA>">>

DigitChars == <<"0", "1", "2", "3", "4", "5", "6", "7", "8", "9">>
UpperChars == <<"A", "B", "C", "D", "E", "F", "G", "H", "I", "J", "K", "L", "M",
                "N", "O", "P", "Q", "R", "S", "T", "U", "V", "W", "X", "Y", "Z">>
LowerChars == <<"a", "b", "c", "d", "e", "f", "g", "h", "i", "j", "k", "l", "m",
                "n", "o", "p", "q", "r", "s", "t", "u", "v", "w", "x", "y", "z">>

Range(f) == {f[i] : i \in DOMAIN f}

IsDigit(c) == c \in Range(DigitChars)

DigitVal(c) == (CHOOSE i \in DOMAIN DigitChars : DigitChars[i] = c) - 1

RECURSIVE lstrip(_)
lstrip(s) == IF s # <<>> /\ Head(s) = " " THEN lstrip(Tail(s)) ELSE s

RECURSIVE rstrip(_)
rstrip(s) == IF s # <<>> /\ s[Len(s)] = " " THEN rstrip(SubSeq(s, 1, Len(s) - 1)) ELSE s

\* str.strip()
str_strip(s) == rstrip(lstrip(s))

LowerChar(c) ==
    IF c \in Range(UpperChars)
    THEN LowerChars[CHOOSE i \in DOMAIN UpperChars : UpperChars[i] = c]
    ELSE c

\* str.lower()
str_lower(s) == [i \in DOMAIN s |-> LowerChar(s[i])]

\* str.replace of every character of a set by nothing
RemoveChars(s, drop) == SelectSeq(s, LAMBDA c : c \notin drop)

\* str.endswith
str_endswith(s, c) == s # <<>> /\ s[Len(s)] = c

\* astype(str): a missing cell prints as "nan"
astype_str(c) == IF c = NA THEN <<"n", "a", "n">> ELSE c

----------------------------------------------------------------------------
(* Numbers: m / 10^d, kept with no trailing zero in the fraction *)

NaN == [nan |-> TRUE, m |-> 0, d |-> 0]

RECURSIVE Num(_, _)
Num(m, d) ==
    IF d > 0 /\ m % 10 = 0 THEN Num(m \div 10, d - 1)
    ELSE [nan |-> FALSE, m |-> m, d |-> d]

RECURSIVE DigitsVal(_)
DigitsVal(s) == IF s = <<>> THEN 0 ELSE 10 * DigitsVal(SubSeq(s, 1, Len(s) - 1)) + DigitVal(s[Len(s)])

AllDigits(s) == \A i \in DOMAIN s : IsDigit(s[i])

\* an unsigned decimal: digits, at most one point, at least one digit
ParseUnsigned(s) ==
    LET dots == {i \in DOMAIN s : s[i] = "."}
    IN  IF Cardinality(dots) > 1 THEN NaN
        ELSE LET p     == IF dots = {} THEN Len(s) + 1 ELSE CHOOSE i \in dots : TRUE
                 whole == SubSeq(s, 1, p - 1)
                 frac  == SubSeq(s, p + 1, Len(s))
             IN  IF AllDigits(whole) /\ AllDigits(frac) /\ Len(whole) + Len(frac) > 0
                 THEN Num(DigitsVal(whole \o frac), Len(frac))
                 ELSE NaN

\* pd.to_numeric(..., errors="coerce") of one cell
pd_to_numeric(c) ==
    IF c = NA THEN NaN
    ELSE LET s == str_strip(c)
         IN  IF s = <<>> THEN NaN
             ELSE IF Head(s) = "-"
                  THEN LET u == ParseUnsigned(Tail(s))
                       IN  IF u.nan THEN NaN ELSE Num(0 - u.m, u.d)
                  ELSE IF Head(s) = "+" THEN ParseUnsigned(Tail(s))
                  ELSE ParseUnsigned(s)

\* num / 100.0
Div100(x) == IF x.nan THEN NaN ELSE Num(x.m, x.d + 2)

\* num % 1 == 0 (false for NaN)
IsWhole(x) == ~x.nan /\ x.d = 0

\* the cells treated as blank: "", "nan", "None" after astype(str).str.strip()
BlankStrings == {<<>>, <<"n", "a", "n">>, <<"N", "o", "n", "e">>}

CurrencyChars == {"Â", "£", "$", ","}

\* Home.to_numeric_resilient of one cell (pct_to_unit = True)
to_numeric_resilient(c) ==
    LET s == str_strip(astype_str(c))
    IN  IF s \in BlankStrings THEN NaN
        ELSE LET pct_mask == str_endswith(s, "%")
                 s_clean  == RemoveChars(RemoveChars(s, CurrencyChars), {"%"})
                 num      == pd_to_numeric(s_clean)
             IN  IF pct_mask THEN Div100(num) ELSE num

----------------------------------------------------------------------------
(* Dates and booleans *)

\* the indices of character c in s
Positions(s, c) == {i \in DOMAIN s : s[i] = c}

IsLeap(y) == y % 4 = 0 /\ (y % 100 # 0 \/ y % 400 = 0)

DaysIn(y, m) ==
    IF m = 2 THEN (IF IsLeap(y) THEN 29 ELSE 28)
    ELSE IF m \in {4, 6, 9, 11} THEN 30 ELSE 31

\* year/month/day that pandas can hold as datetime64[ns], as yyyymmdd; 0 is NaT
YMD(y, m, d) ==
    IF y >= 1678 /\ y <= 2261 /\ m >= 1 /\ m <= 12 /\ d >= 1 /\ d <= DaysIn(y, m)
    THEN y * 10000 + m * 100 + d ELSE 0

\* a date written with separator sep: first/second/third part, digits only
SplitDate(s, sep) ==
    LET ps == Positions(s, sep)
        p1 == CHOOSE i \in ps : \A j \in ps : i <= j
        p2 == CHOOSE i \in ps : \A j \in ps : j <= i
        a  == SubSeq(s, 1, p1 - 1)
        b  == SubSeq(s, p1 + 1, p2 - 1)
        c  == SubSeq(s, p2 + 1, Len(s))
    IN  IF Cardinality(ps) = 2 /\ a # <<>> /\ b # <<>> /\ c # <<>>
           /\ AllDigits(a) /\ AllDigits(b) /\ AllDigits(c)
        THEN <<a, b, c>> ELSE <<>>

\* pd.to_datetime(..., errors="coerce") of one text cell: yyyymmdd, or 0 for NaT.
\* The formats read: yyyymmdd, yyyy-mm-dd and m/d/yyyy.
pd_to_datetime(c) ==
    IF c = NA THEN 0
    ELSE LET s     == str_strip(c)
             iso   == SplitDate(s, "-")
             slash == SplitDate(s, "/")
         IN  IF Len(s) = 8 /\ AllDigits(s)
             THEN YMD(DigitsVal(SubSeq(s, 1, 4)), DigitsVal(SubSeq(s, 5, 6)), DigitsVal(SubSeq(s, 7, 8)))
             ELSE IF iso # <<>> /\ Len(iso[1]) = 4 /\ Len(iso[2]) = 2 /\ Len(iso[3]) = 2
             THEN YMD(DigitsVal(iso[1]), DigitsVal(iso[2]), DigitsVal(iso[3]))
             ELSE IF slash # <<>> /\ Len(slash[1]) <= 2 /\ Len(slash[2]) <= 2 /\ Len(slash[3]) = 4
             THEN (IF DigitsVal(slash[1]) <= 12
                   THEN YMD(DigitsVal(slash[3]), DigitsVal(slash[1]), DigitsVal(slash[2]))
                   ELSE YMD(DigitsVal(slash[3]), DigitsVal(slash[2]), DigitsVal(slash[1])))
             ELSE 0

BOOL_TRUE  == {<<"t", "r", "u", "e">>, <<"y", "e", "s">>, <<"y">>, <<"1">>}
BOOL_FALSE == {<<"f", "a", "l", "s", "e">>, <<"n", "o">>, <<"n">>, <<"0">>}

\* bool_map.keys()
bool_map_keys == BOOL_TRUE \cup BOOL_FALSE

----------------------------------------------------------------------------
(* Values a typed column holds *)

NaV       == [kind |-> "na",   s |-> <<>>, m |-> 0, d |-> 0, b |-> FALSE]
StrV(t)   == [kind |-> "str",  s |-> t,    m |-> 0, d |-> 0, b |-> FALSE]
BoolV(x)  == [kind |-> "bool", s |-> <<>>, m |-> 0, d |-> 0, b |-> x]
DtV(n)    == [kind |-> "dt",   s |-> <<>>, m |-> n, d |-> 0, b |-> FALSE]
NumV(x)   == IF x.nan THEN NaV
             ELSE [kind |-> "num", s |-> <<>>, m |-> x.m, d |-> x.d, b |-> FALSE]

\* a cell as read_csv leaves it in an object column
ObjV(t) == IF t = NA THEN NaV ELSE StrV(t)

----------------------------------------------------------------------------
(* Bags of cells *)

RECURSIVE SumOver(_, _)
SumOver(f, S) ==
    IF S = {} THEN 0
    ELSE LET x == CHOOSE y \in S : TRUE IN f[x] + SumOver(f, S \ {x})

\* len(series)
BagSize(b) == SumOver(b, DOMAIN b)

\* the rows whose cell is in S
CountWhere(b, S) == SumOver(b, S)

\* series.dropna().astype(str).str.strip(): stripped value -> row count
StrippedNonNull(series) ==
    LET nn == {t \in DOMAIN series : t # NA}
        st == [t \in nn |-> str_strip(t)]
    IN  [v \in {st[t] : t \in nn} |-> SumOver(series, {t \in nn : st[t] = v})]

\* the k-th smallest of the values f[x], x counted b[x] times
KthSmallest(b, f, k) ==
    CHOOSE L \in {f[x] : x \in DOMAIN b} :
        /\ SumOver(b, {x \in DOMAIN b : f[x] <= L}) >= k
        /\ SumOver(b, {x \in DOMAIN b : f[x] < L}) < k

\* twice the median of the values f[x] over a non-empty bag
TwiceMedian(b, f) ==
    LET n == BagSize(b)
    IN  IF n % 2 = 1 THEN 2 * KthSmallest(b, f, (n + 1) \div 2)
        ELSE KthSmallest(b, f, n \div 2) + KthSmallest(b, f, n \div 2 + 1)

\* value_counts().head(k).sum(): the rows of the k most frequent values, taken
\* from the values of S in descending order of their count
RECURSIVE HeadSum(_, _, _)
HeadSum(b, S, k) ==
    IF k = 0 \/ S = {} THEN 0
    ELSE LET top  == CHOOSE c \in {b[x] : x \in S} : \A y \in S : b[y] <= c
             tops == {x \in S : b[x] = top}
             n    == Cardinality(tops)
         IN  IF n >= k THEN k * top
             ELSE n * top + HeadSum(b, S \ tops, k - n)

----------------------------------------------------------------------------
(* Double-precision arithmetic of value_counts(normalize=True).head(10).sum() *)

\* the significand of a float64 has 53 bits
FLOAT_BITS == 53

Zeros(n) == [i \in 1..n |-> 0]

\* a positive float64: sig is FLOAT_BITS bits with sig[1] = 1, read as the
\* binary numeral sig[1].sig[2]sig[3]..., and the value is that times 2^exp
Dbl(e, sig) == [exp |-> e, sig |-> sig]

FloatLess(x, y) ==
    \/ x.exp < y.exp
    \/ /\ x.exp = y.exp
       /\ \E i \in 1..FLOAT_BITS :
              x.sig[i] < y.sig[i] /\ \A j \in 1..(i - 1) : x.sig[j] = y.sig[j]

\* bits + 1, with the carry out of the first bit
Incr(bits) ==
    LET zs == {i \in DOMAIN bits : bits[i] = 0}
        z  == CHOOSE i \in zs : \A j \in zs : j <= i
    IN  IF zs = {} THEN [carry |-> 1, bits |-> Zeros(Len(bits))]
        ELSE [carry |-> 0,
              bits  |-> [i \in DOMAIN bits |->
                            IF i < z THEN bits[i] ELSE IF i = z THEN 1 ELSE 0]]

\* round-to-nearest, ties-to-even, of the numeral bits (bits[1] = 1) times 2^e
RoundNearestEven(e, bits) ==
    LET keep   == SubSeq(bits, 1, FLOAT_BITS)
        tail   == SubSeq(bits, FLOAT_BITS + 1, Len(bits))
        guard  == Len(tail) >= 1 /\ tail[1] = 1
        sticky == \E i \in 2..Len(tail) : tail[i] = 1
        up     == guard /\ (sticky \/ keep[FLOAT_BITS] = 1)
        inc    == Incr(keep)
    IN  IF ~up THEN Dbl(e, keep)
        ELSE IF inc.carry = 1 THEN Dbl(e + 1, <<1>> \o Zeros(FLOAT_BITS - 1))
        ELSE Dbl(e, inc.bits)

\* (rem * 2^i) % n, in steps that stay below 2^31
RECURSIVE ModPow2(_, _, _)
ModPow2(rem, n, i) ==
    IF i <= 16 THEN (rem * 2^i) % n ELSE ModPow2((rem * 2^16) % n, n, i - 16)

\* the next k bits of rem / n (rem < n), and the remainder left after them
QuotientBits(rem, n, k) ==
    [bits |-> [i \in 1..k |-> (2 * ModPow2(rem, n, i - 1)) \div n],
     rem  |-> ModPow2(rem, n, k)]

\* the k with 1 <= c * 2^k / n < 2, for 1 <= c <= n
RECURSIVE NormShift(_, _)
NormShift(c, n) == IF c >= n THEN 0 ELSE 1 + NormShift(2 * c, n)

\* the float64 c / n of two integers 1 <= c <= n, correctly rounded
true_divide(c, n) ==
    LET k    == NormShift(c, n)
        q    == QuotientBits(c * 2^k - n, n, FLOAT_BITS)
        bits == <<1>> \o q.bits \o <<IF q.rem > 0 THEN 1 ELSE 0>>
    IN  RoundNearestEven(0 - k, bits)

\* the carry into bit i of a + b: that of the nearest bit to its right where
\* the two bits are equal
CarryInto(a, b, i) ==
    LET S == {j \in (i + 1)..Len(a) : a[j] = b[j]}
        m == CHOOSE j \in S : \A k \in S : j <= k
    IN  IF S = {} THEN 0 ELSE a[m]

\* a + b of two bit strings of one length, the carry out in front
AddBits(a, b) ==
    [i \in 1..(Len(a) + 1) |->
        IF i = 1 THEN CarryInto(a, b, 0)
        ELSE (a[i - 1] + b[i - 1] + CarryInto(a, b, i - 1)) % 2]

\* the float64 x + y, correctly rounded
float_add(x, y) ==
    LET hi == IF FloatLess(x, y) THEN y ELSE x
        lo == IF FloatLess(x, y) THEN x ELSE y
        d  == hi.exp - lo.exp
        s  == AddBits(hi.sig \o Zeros(d), Zeros(d) \o lo.sig)
    IN  IF s[1] = 1 THEN RoundNearestEven(hi.exp + 1, s)
        ELSE RoundNearestEven(hi.exp, Tail(s))

\* res += a[i], a[i + 1], ... in index order
RECURSIVE AddRest(_, _, _)
AddRest(res, a, i) ==
    IF i > Len(a) THEN res ELSE AddRest(float_add(res, a[i]), a, i + 1)

\* Series.sum() of 1 to 15 float64: numpy adds fewer than 8 values in index
\* order, and from 8 values on adds the first 8 pairwise and the rest in order
add_reduce(a) ==
    IF Len(a) < 8 THEN AddRest(a[1], a, 2)
    ELSE AddRest(float_add(float_add(float_add(a[1], a[2]), float_add(a[3], a[4])),
                           float_add(float_add(a[5], a[6]), float_add(a[7], a[8]))),
                 a, 9)

\* value_counts().head(k): the counts of the k most frequent values of S, in
\* descending order
RECURSIVE HeadCounts(_, _, _)
HeadCounts(b, S, k) ==
    IF k = 0 \/ S = {} THEN <<>>
    ELSE LET top  == CHOOSE c \in {b[x] : x \in S} : \A y \in S : b[y] <= c
             tops == {x \in S : b[x] = top}
             m    == IF Cardinality(tops) >= k THEN k ELSE Cardinality(tops)
         IN  [i \in 1..m |-> top] \o HeadCounts(b, S \ tops, k - m)

----------------------------------------------------------------------------
(* looks_categorical *)

CodeChars == Range(UpperChars) \cup Range(LowerChars) \cup Range(DigitChars) \cup {"_", "-"}

\* str.match(r"^[A-Za-z0-9_-]{6,}$")
MatchesCode(v) == Len(v) >= CODE_MINLEN /\ \A i \in DOMAIN v : v[i] \in CodeChars

\* no near-unique reject
RatioReject_never(uniq, rows) == FALSE

\* the reject tests of looks_categorical
RatioReject(uniq, rows) == uniq * 100 > ID_RATIO * rows

CodeReject(s) == CountWhere(s, {v \in DOMAIN s : MatchesCode(v)}) * 100 > CODE_RATE * BagSize(s)

\* the four positive signals
short_labels(s) == TwiceMedian(s, [v \in DOMAIN s |-> Len(v)]) <= 2 * SHORT_LEN

abs_low(s) == Cardinality(DOMAIN s) <= ABS_LOW

rel_low(s, rows) ==
    Cardinality(DOMAIN s) * 100 <= REL_LOW * (IF rows > 1 THEN rows ELSE 1)

\* value_counts(normalize=True).head(10).sum() >= 0.8, in float64.  The sum of
\* at most 10 rounded fractions is within 2^-48 of the exact ratio, and an exact
\* ratio other than 0.8 is at least 1/(5 * len(s)) away from it, so the
\* rounded sum is computed only where the exact ratio is 0.8.
coverage(s) ==
    LET n   == BagSize(s)
        top == HeadSum(s, DOMAIN s, TOP_N)
        fr  == HeadCounts(s, DOMAIN s, TOP_N)
    IN  IF top * 100 # COVERAGE * n THEN top * 100 > COVERAGE * n
        ELSE ~FloatLess(add_reduce([i \in DOMAIN fr |-> true_divide(fr[i], n)]),
                        true_divide(COVERAGE, 100))

Bit(x) == IF x THEN 1 ELSE 0

positive(s, rows) ==
    Bit(short_labels(s)) + Bit(abs_low(s)) + Bit(rel_low(s, rows)) + Bit(coverage(s))

EnoughSignals(n) == n >= MIN_SIGNALS

looks_categorical(series, rows) ==
    LET s == StrippedNonNull(series)
    IN  IF rows = 0 \/ BagSize(s) = 0 THEN FALSE
        ELSE IF RatioReject(Cardinality(DOMAIN s), rows) THEN FALSE
        ELSE IF CodeReject(s) THEN FALSE
        ELSE EnoughSignals(positive(s, rows))

----------------------------------------------------------------------------
(* The typing loop of Home.py, for one column *)

\* rule 1: parsed.notna().mean() >= 0.6, the mean taken over all rows
DateTimeQualifies(col) ==
    /\ BagSize(col) > 0
    /\ CountWhere(col, {t \in DOMAIN col : pd_to_datetime(t) # 0}) * 100 >= DATETIME_RATE * BagSize(col)

\* vals = df[col].dropna().astype(str).str.strip().str.lower()
BoolToken(t) == str_lower(str_strip(t))

\* rule 2: len(vals) and vals.isin(bool_map.keys()).mean() >= 0.9
BooleanQualifies(col) ==
    LET nonnull == CountWhere(col, {t \in DOMAIN col : t # NA})
        inmap   == CountWhere(col, {t \in DOMAIN col : t # NA /\ BoolToken(t) \in bool_map_keys})
    IN  nonnull > 0 /\ inmap * 100 >= BOOL_RATE * nonnull

\* a conversion that leaves a cell outside the lexicon as it was
BooleanValue_keep(t) ==
    IF t = NA THEN NaV
    ELSE IF BoolToken(t) \in BOOL_TRUE THEN BoolV(TRUE)
    ELSE IF BoolToken(t) \in BOOL_FALSE THEN BoolV(FALSE)
    ELSE StrV(t)

\* vals.map(bool_map).astype("boolean"), aligned back on the rows of the column
BooleanValue(t) ==
    IF t = NA THEN NaV
    ELSE IF BoolToken(t) \in BOOL_TRUE THEN BoolV(TRUE)
    ELSE IF BoolToken(t) \in BOOL_FALSE THEN BoolV(FALSE)
    ELSE NaV

\* nonblank = raw.replace({"": NA, "nan": NA, "None": NA}).notna()
nonblank(t) == str_strip(astype_str(t)) \notin BlankStrings

\* rule 3 with both thresholds exclusive
NumericQualifies_strict(col) ==
    LET filled == CountWhere(col, {t \in DOMAIN col : nonblank(t)})
        parsed == CountWhere(col, {t \in DOMAIN col : nonblank(t) /\ ~to_numeric_resilient(t).nan})
    IN  /\ filled > 0
        /\ parsed * 100 > NUMERIC_RATE * filled
        /\ filled * 100 > NONBLANK_RATE * BagSize(col)

\* rule 3: parsed_rate >= 0.9 and nonblank.mean() >= 0.05
NumericQualifies(col) ==
    LET filled == CountWhere(col, {t \in DOMAIN col : nonblank(t)})
        parsed == CountWhere(col, {t \in DOMAIN col : nonblank(t) /\ ~to_numeric_resilient(t).nan})
    IN  /\ filled > 0
        /\ parsed * 100 >= NUMERIC_RATE * filled
        /\ filled * 100 >= NONBLANK_RATE * BagSize(col)

\* (num[nonblank] % 1 == 0).all()
AllWhole(col) ==
    \A t \in DOMAIN col : nonblank(t) => IsWhole(to_numeric_resilient(t))

DateTimeRule ==
    /\ pc = "datetime"
    /\ pc' = "bool"
    /\ IF dtype = "object" /\ DateTimeQualifies(cells)
       THEN /\ dtype' = "datetime64[ns]"
            /\ vals' = [t \in DOMAIN cells |->
                          IF pd_to_datetime(t) = 0 THEN NaV ELSE DtV(pd_to_datetime(t))]
            /\ conversions' = Append(conversions, "datetime")
       ELSE UNCHANGED <<dtype, vals, conversions>>
    /\ UNCHANGED <<cells, result, base_df, new_df, diff, session>>

BooleanRule ==
    /\ pc = "bool"
    /\ pc' = "numeric"
    /\ IF dtype = "object" /\ BooleanQualifies(cells)
       THEN /\ dtype' = "boolean"
            /\ vals' = [t \in DOMAIN cells |-> BooleanValue(t)]
            /\ conversions' = Append(conversions, "bool")
       ELSE UNCHANGED <<dtype, vals, conversions>>
    /\ UNCHANGED <<cells, result, base_df, new_df, diff, session>>

\* rule 3 tried on every column, whatever the earlier rules made of it
NumericRule_unguarded ==
    /\ pc = "numeric"
    /\ pc' = "category"
    /\ IF NumericQualifies(cells)
       THEN /\ dtype' = IF AllWhole(cells) THEN "Int64" ELSE "float64"
            /\ vals' = [t \in DOMAIN cells |-> NumV(to_numeric_resilient(t))]
            /\ conversions' = Append(conversions, IF AllWhole(cells) THEN "Int64" ELSE "float64")
       ELSE UNCHANGED <<dtype, vals, conversions>>
    /\ UNCHANGED <<cells, result, base_df, new_df, diff, session>>

NumericRule ==
    /\ pc = "numeric"
    /\ pc' = "category"
    /\ IF dtype = "object" /\ NumericQualifies(cells)
       THEN /\ dtype' = IF AllWhole(cells) THEN "Int64" ELSE "float64"
            /\ vals' = [t \in DOMAIN cells |-> NumV(to_numeric_resilient(t))]
            /\ conversions' = Append(conversions, IF AllWhole(cells) THEN "Int64" ELSE "float64")
       ELSE UNCHANGED <<dtype, vals, conversions>>
    /\ UNCHANGED <<cells, result, base_df, new_df, diff, session>>

CategoryRule ==
    /\ pc = "category"
    /\ pc' = "done"
    /\ IF dtype = "object" /\ looks_categorical(cells, BagSize(cells))
       THEN /\ dtype' = "category"
            /\ conversions' = Append(conversions, "category")
            /\ UNCHANGED vals
       ELSE UNCHANGED <<dtype, vals, conversions>>
    /\ UNCHANGED <<cells, result, base_df, new_df, diff, session>>

----------------------------------------------------------------------------
(* Columns the loop can meet *)

\* the bags over the cells of pool with 1..MaxKinds distinct cells and at most n rows
BagsOver(pool, n) ==
    UNION {{b \in [S -> 1..n] : BagSize(b) <= n} :
              S \in {T \in SUBSET pool : Cardinality(T) >= 1 /\ Cardinality(T) <= MaxKinds}}

\* read_csv leaves a column as object when some cell is neither missing nor a
\* plain number (a column of plain numbers is read as int64/float64, and a
\* column with no value at all is dropped by dropna(axis=1, how="all"))
IsObjectColumn(b) == \E t \in DOMAIN b : t # NA /\ pd_to_numeric(t).nan

TypeCells ==
    { NA,
      <<" ", " ">>,
      <<"1", "/", "2", "/", "2", "0", "2", "0">>,
      <<"2", "0", "2", "0", "0", "1", "0", "1">>,
      <<"Y", "e", "s", " ">>,
      <<"1">>,
      <<"1", "2", ".", "7">>,
      <<"£", "5">>,
      <<"5", "0", "%">>,
      <<"a", "b", "c">> }

NumericCells ==
    { NA,
      <<" ", " ">>,
      <<"£", "5">>,
      <<"5", "0", "%">>,
      <<"a", "b", "c">> }

NoTable == <<>>
NoDiff  == [state |-> "idle", added |-> <<>>, removed |-> <<>>]

\* None, where a key refers to no table
None == [dtype |-> "None", rows |-> <<>>, assigned |-> FALSE]

\* a key that is not in st.session_state
Absent == [dtype |-> "absent", rows |-> <<>>, assigned |-> FALSE]

\* None, where a key holds the bytes or the name of an upload, and where
\* the uploader holds no file
NoBytes == <<>>
NoName == ""
NoUpload == [name |-> NoName, bytes |-> NoBytes]

\* the session before any page ran: no df key, and for the other keys None
\* (the setdefault calls of the 05 page) or the default of their .get(),
\* "none" for no dups_action
NoSession ==
    [df |-> Absent, df_backup |-> None, inc_new_raw |-> NoBytes,
     inc_new_df |-> None, inc_new_name |-> NoName,
     df_backup_before_dups |-> None, dups_action |-> "none",
     dups_removed_n |-> 0, dups_removed_rows |-> None,
     inc_keyfree_uploader |-> NoUpload]

InitColumn(pool, n) ==
    /\ cells \in {b \in BagsOver(pool, n) : IsObjectColumn(b)}
    /\ dtype = "object"
    /\ vals = [t \in DOMAIN cells |-> ObjV(t)]
    /\ conversions = <<>>
    /\ pc = "datetime"
    /\ result = FALSE
    /\ base_df = NoTable
    /\ new_df = NoTable
    /\ diff = NoDiff
    /\ session = NoSession

Init == InitColumn(TypeCells, MaxRows)

TypeColumn == DateTimeRule \/ BooleanRule \/ NumericRule \/ CategoryRule

Next == TypeColumn

Spec == Init /\ [][Next]_vars

InitNumeric == InitColumn(NumericCells, MaxNumRows)

SpecNumeric == InitNumeric /\ [][Next]_vars

----------------------------------------------------------------------------
(* Claims about the typing loop *)

NumericTypes == {"Int64", "float64"}

\* rows of the column whose cell is in S
Rows(S) == SumOver(cells, S \cap DOMAIN cells)

ParsesAsNumber(t) == nonblank(t) /\ ~to_numeric_resilient(t).nan

ParsesAsDate(t) == pd_to_datetime(t) # 0

InLexicon(t) == t # NA /\ BoolToken(t) \in bool_map_keys

C5_NumericThresholds ==
    (pc \in {"category", "done"} /\ dtype \notin {"datetime64[ns]", "boolean"}) =>
        ((dtype \in NumericTypes)
            <=> /\ Rows({t \in DOMAIN cells : nonblank(t)}) >= 1
                /\ 10 * Rows({t \in DOMAIN cells : ParsesAsNumber(t)}) >= 9 * Rows({t \in DOMAIN cells : nonblank(t)})
                /\ 20 * Rows({t \in DOMAIN cells : nonblank(t)}) >= BagSize(cells))

C5_Witness ==
    /\ pc = "category"
    /\ dtype \in NumericTypes
    /\ 20 * Rows({t \in DOMAIN cells : nonblank(t)}) = BagSize(cells)

\* C6: a column typed numeric is typed Int64 exactly when every successfully
\* parsed value is a whole number; cells that failed to parse take no part.
C6_IntegerIffParsedValuesWhole ==
    (pc \in {"category", "done"} /\ dtype \in NumericTypes) =>
        ((dtype = "Int64") <=>
            \A t \in DOMAIN cells : ParsesAsNumber(t) => IsWhole(to_numeric_resilient(t)))

\* C7: a text column is typed DateTime exactly when the cells that parse as a
\* date are at least 60% of its non-null cells.
C7_DateTimeOverNonNull ==
    pc # "datetime" =>
        ((dtype = "datetime64[ns]") <=>
            10 * Rows({t \in DOMAIN cells : ParsesAsDate(t)}) >= 6 * Rows(DOMAIN cells \ {NA}))

\* C8: a column that reaches the Boolean rule as text becomes boolean exactly
\* when it has a non-null cell and at least 90% of its non-null cells are in the
\* lexicon after trimming and lower-casing; then every cell holds the lexicon's
\* boolean for its token, or null when it is null or out of the lexicon.
C8_BooleanRule ==
    (pc = "numeric" /\ dtype # "datetime64[ns]") =>
        /\ (dtype = "boolean") <=>
              /\ Rows(DOMAIN cells \ {NA}) >= 1
              /\ 10 * Rows({t \in DOMAIN cells : InLexicon(t)}) >= 9 * Rows(DOMAIN cells \ {NA})
        /\ dtype = "boolean" =>
              \A t \in DOMAIN cells :
                  /\ vals[t].kind \in {"bool", "na"}
                  /\ (vals[t].kind = "bool") = InLexicon(t)
                  /\ InLexicon(t) =>
                       (vals[t].b = (BoolToken(t) \in
                           {<<"t", "r", "u", "e">>, <<"y", "e", "s">>, <<"y">>, <<"1">>}))

C8_Witness ==
    /\ pc = "numeric"
    /\ dtype = "boolean"
    /\ \E t \in DOMAIN cells : t # NA /\ ~InLexicon(t) /\ vals[t] = NaV
    /\ \E t \in DOMAIN cells : vals[t] = BoolV(TRUE) /\ t # BoolToken(t)

----------------------------------------------------------------------------
(* looks_categorical called on its own *)

TwoDigits(i) == <<DigitChars[(i \div 10) + 1], DigitChars[(i % 10) + 1]>>

\* a label of 3 characters, e.g. "v07": short, not a code
ShortLabel(c, i) == <<c>> \o TwoDigits(i)

\* a token of 6 characters, e.g. "ID0007": matches the code pattern
CodeToken(i) == <<"I", "D", "0", "0">> \o TwoDigits(i)

\* a sentence of 26 characters with a space in it: long, not a code
LongText(i) == [k \in 1..24 |-> IF k = 5 THEN " " ELSE "x"] \o TwoDigits(i)

HeadValue(kind, i) ==
    IF kind = "code" THEN CodeToken(i)
    ELSE IF kind = "long" THEN LongText(i)
    ELSE ShortLabel("v", i)

\* the column with h distinct values of one kind on fh rows each, t labels that
\* occur once, nulls missing cells, and pad rows holding the first frequent
\* value followed by a space
ProfileColumn(kind, h, fh, t, nulls, pad) ==
    LET hs == {HeadValue(kind, i) : i \in 1..h}
        ts == {ShortLabel("w", i) : i \in 1..t}
        ns == IF nulls > 0 THEN {NA} ELSE {}
        ps == IF pad > 0 THEN {HeadValue(kind, 1) \o <<" ">>} ELSE {}
    IN  [x \in hs \cup ts \cup ns \cup ps |->
            IF x \in hs THEN fh ELSE IF x \in ts THEN 1 ELSE IF x \in ns THEN nulls ELSE pad]

\* small columns of every kind, with missing and padded cells
SmallColumns ==
    {ProfileColumn(kind, h, fh, t, nulls, pad) :
        kind \in {"short", "long", "code"}, h \in 0..MaxSmall, fh \in 1..MaxSmall,
        t \in 0..MaxSmall, nulls \in 0..MaxNulls, pad \in 0..1}

\* large columns of short labels
LargeColumns ==
    {ProfileColumn("short", h, fh, t, 0, 0) :
        h \in 0..MaxHead, fh \in 1..MaxFreq, t \in 0..MaxTail}

InitCategorical ==
    /\ cells \in SmallColumns \cup LargeColumns
    /\ dtype = "object"
    /\ vals = <<>>
    /\ conversions = <<>>
    /\ pc = "call"
    /\ result = FALSE
    /\ base_df = NoTable
    /\ new_df = NoTable
    /\ diff = NoDiff
    /\ session = NoSession

\* looks_categorical(df[col], len(df))
CallLooksCategorical ==
    /\ pc = "call"
    /\ pc' = "returned"
    /\ result' = looks_categorical(cells, BagSize(cells))
    /\ UNCHANGED <<cells, dtype, vals, conversions, base_df, new_df, diff, session>>

NextCategorical == CallLooksCategorical

SpecCategorical == InitCategorical /\ [][NextCategorical]_vars

----------------------------------------------------------------------------
(* Claims about looks_categorical *)

\* the two negative signals, over the stripped non-null values L of n rows
NegativeSignal(L, n) ==
    \/ 2 * Cardinality(DOMAIN L) > n
    \/ 10 * CountWhere(L, {v \in DOMAIN L : MatchesCode(v)}) > 3 * BagSize(L)

SignalShort(L) == TwiceMedian(L, [v \in DOMAIN L |-> Len(v)]) <= 50

SignalDistinct(L) == Cardinality(DOMAIN L) <= 50

SignalRatio(L, n) == 5 * Cardinality(DOMAIN L) <= n

SignalTop10(L) == 5 * HeadSum(L, DOMAIN L, 10) >= 4 * BagSize(L)

ThreeOfFour(L, n) ==
    LET a == SignalShort(L)
        b == SignalDistinct(L)
        c == SignalRatio(L, n)
        d == SignalTop10(L)
    IN  (a /\ b /\ c) \/ (a /\ b /\ d) \/ (a /\ c /\ d) \/ (b /\ c /\ d)

\* C9: for a column with a row and a non-null value that no negative signal
\* rejects, looks_categorical returns true exactly when at least 3 of the 4
\* positive signals hold.
C9_ThreeOfFourSignals ==
    pc = "returned" =>
        LET L == StrippedNonNull(cells)
            n == BagSize(cells)
        IN  (n >= 1 /\ BagSize(L) >= 1 /\ ~NegativeSignal(L, n)) =>
                (result <=> ThreeOfFour(L, n))

\* C10: looks_categorical never returns true when the distinct-to-row ratio
\* exceeds 0.5 or more than 30% of the values match the code pattern, whatever
\* the positive signals, nor for zero rows or zero non-null values.
C10_NegativeSignalsOverride ==
    pc = "returned" =>
        LET L == StrippedNonNull(cells)
            n == BagSize(cells)
        IN  (n = 0 \/ BagSize(L) = 0 \/ NegativeSignal(L, n)) => ~result

C10_Witness ==
    /\ pc = "returned"
    /\ ~result
    /\ LET L == StrippedNonNull(cells)
           n == BagSize(cells)
       IN  /\ 2 * Cardinality(DOMAIN L) > n
           /\ SignalShort(L) /\ SignalDistinct(L) /\ SignalTop10(L)

----------------------------------------------------------------------------
(* normalize_for_rowdiff, for text columns (dtype object in BASE, string in NEW) *)

SENT == <<"_", "_", "N", "A", "_", "_">>

\* the decimal digits of a natural number
RECURSIVE NatChars(_)
NatChars(n) == IF n < 10 THEN <<DigitChars[n + 1]>> ELSE NatChars(n \div 10) \o <<DigitChars[(n % 10) + 1]>>

\* n written on w digits, zero-padded
RECURSIVE Padded(_, _)
Padded(n, w) == IF w = 0 THEN <<>> ELSE Padded(n \div 10, w - 1) \o <<DigitChars[(n % 10) + 1]>>

Pow10(d) == IF d = 0 THEN 1 ELSE IF d = 1 THEN 10 ELSE IF d = 2 THEN 100 ELSE IF d = 3 THEN 1000
            ELSE IF d = 4 THEN 10000 ELSE IF d = 5 THEN 100000 ELSE 1000000

\* f"{x:.6f}".rstrip("0").rstrip("."), for a number of at most 6 decimals
FormatNumber(x) ==
    LET a    == IF x.m < 0 THEN 0 - x.m ELSE x.m
        sign == IF x.m < 0 THEN <<"-">> ELSE <<>>
    IN  IF x.d = 0 THEN sign \o NatChars(a)
        ELSE sign \o NatChars(a \div Pow10(x.d)) \o <<".">> \o Padded(a % Pow10(x.d), x.d)

\* dt.strftime("%Y-%m-%d %H:%M:%S") of a date (no time of day)
FormatDate(ymd) ==
    Padded(ymd \div 10000, 4) \o <<"-">> \o Padded((ymd \div 100) % 100, 2) \o <<"-">>
        \o Padded(ymd % 100, 2) \o <<" ", "0", "0", ":", "0", "0", ":", "0", "0">>

\* one cell of a text column: date, else number, else trimmed text with the
\* sentinel for a missing or empty cell
normalize_cell(c) ==
    LET is_dt  == pd_to_datetime(c) # 0
        is_num == ~pd_to_numeric(c).nan /\ ~is_dt
        text   == IF c = NA THEN SENT ELSE str_strip(c)
    IN  IF is_dt THEN FormatDate(pd_to_datetime(c))
        ELSE IF is_num THEN FormatNumber(pd_to_numeric(c))
        ELSE IF text = <<>> THEN SENT ELSE text

\* the rows of the compared tables over their two shared text columns
DiffRowPool ==
    { << <<"a">>,      <<"1">> >>,
      << <<"a", " ">>, <<"1", ".", "0">> >>,
      << NA,           <<"1", "/", "2", "/", "2", "0", "2", "0">> >>,
      << <<" ", " ">>, <<"2", "0", "2", "0", "-", "0", "1", "-", "0", "2">> >> }

\* rows of each table in the comparison of typed tables
MaxTypedRows == 2

\* rows over the columns (name, value) with value a text column
TextRowPool ==
    { << <<"a">>, NA >>,
      << <<"a">>, SENT >>,
      << <<"a">>, <<"x">> >> }

\* rows over the columns (name, value) with value an Int64 column
IntRowPool ==
    { << <<"a">>, NA >>,
      << <<"a">>, <<"1">> >>,
      << <<"a">>, <<"2">> >> }

\* normalize_cell over the text cells of the row pools, computed once
NormalizedCell ==
    [c \in UNION {Range(r) : r \in DiffRowPool \cup TextRowPool \cup IntRowPool} |-> normalize_cell(c)]

\* strftime("%Y-%m-%d %H:%M:%S") of the instant ns nanoseconds after
\* 1970-01-01 00:00:00, within that day
EpochString(ns) ==
    LET secs == ns \div 1000000000
    IN  <<"1", "9", "7", "0", "-", "0", "1", "-", "0", "1", " ">>
            \o Padded(secs \div 3600, 2) \o <<":">> \o Padded((secs \div 60) % 60, 2)
            \o <<":">> \o Padded(secs % 60, 2)

\* one cell of an Int64 column holding whole numbers from 0: pd.to_datetime
\* reads a number as nanoseconds since 1970-01-01, so is_dt holds for every
\* number and is_num for none; a missing cell gets the sentinel
normalize_number(c) ==
    IF c = NA THEN SENT ELSE EpochString(pd_to_numeric(c).m)

IntegerDtypes == {"int64", "Int64"}

\* the index of column name c in a table
ColIndex(df, c) == CHOOSE i \in DOMAIN df.columns : df.columns[i] = c

\* normalize_for_rowdiff(df, cols): the rows of df over cols, normalised
normalize_for_rowdiff(df, cols) ==
    [i \in DOMAIN df.rows |->
        [k \in DOMAIN cols |->
            IF df.dtypes[ColIndex(df, cols[k])] \in IntegerDtypes
            THEN normalize_number(df.rows[i][ColIndex(df, cols[k])])
            ELSE NormalizedCell[df.rows[i][ColIndex(df, cols[k])]]]]

----------------------------------------------------------------------------
(* Row changes: the multiset merge *)

\* sorted(list(base_cols & new_cols)); the columns of a table are kept sorted
common_cols == SelectSeq(base_df.columns, LAMBDA c : c \in Range(new_df.columns))

BASE_N == normalize_for_rowdiff(base_df, common_cols)

\* the new table's rows over the common columns, left as uploaded
NEW_raw ==
    [i \in DOMAIN new_df.rows |->
        [k \in DOMAIN common_cols |-> new_df.rows[i][ColIndex(new_df, common_cols[k])]]]

NEW_N == normalize_for_rowdiff(new_df, common_cols)

\* a comparison made whatever the common columns
no_common_cols_never == FALSE

\* len(common_cols) == 0
no_common_cols == Len(common_cols) = 0

\* a merge on the common columns alone: no per-duplicate index
cumcount_none(T, i) == 0

\* groupby(common_cols).cumcount(): how many earlier rows equal row i
cumcount(T, i) == Cardinality({j \in 1..(i - 1) : T[j] = T[i]})

\* the rows with their join key: common_cols + ["__dup_idx__"]
WithDupIdx(T) == [i \in DOMAIN T |-> [row |-> T[i], dup |-> cumcount(T, i)]]

\* merge(how="outer", indicator=True): the rows of L marked left_only
left_only(L, R) == SelectSeq(L, LAMBDA x : \A j \in DOMAIN R : R[j] # x)

\* merge(how="left"): no row of R is kept without a match
right_only_left_join(L, R) == <<>>

\* merge(how="outer", indicator=True): the rows of R marked right_only
right_only(L, R) == SelectSeq(R, LAMBDA x : \A i \in DOMAIN L : L[i] # x)

RowChanges ==
    /\ pc = "compare"
    /\ pc' = "compared"
    /\ IF no_common_cols
       THEN diff' = [state |-> "not comparable", added |-> <<>>, removed |-> <<>>]
       ELSE LET L == WithDupIdx(BASE_N)
                R == WithDupIdx(NEW_N)
            IN  diff' = [state |-> "compared",
                         added   |-> right_only(L, R),
                         removed |-> left_only(L, R)]
    /\ UNCHANGED <<cells, dtype, vals, conversions, result, base_df, new_df, session>>

SeqsUpTo(S, n) == UNION {[1..k -> S] : k \in 0..n}

DiffTables ==
    {[columns |-> <<"name", "value">>, dtypes |-> <<"object", "object">>, rows |-> r] :
        r \in SeqsUpTo(DiffRowPool, MaxDiffRows)}

InitRowDiff ==
    /\ base_df \in DiffTables
    /\ new_df \in DiffTables
    /\ diff = NoDiff
    /\ session = NoSession
    /\ pc = "compare"
    /\ cells = <<>>
    /\ dtype = "object"
    /\ vals = <<>>
    /\ conversions = <<>>
    /\ result = FALSE

NextRowDiff == RowChanges

SpecRowDiff == InitRowDiff /\ [][NextRowDiff]_vars

\* tables over the columns cols of dtypes dts
Tables(cols, dts, pool) ==
    {[columns |-> cols, dtypes |-> dts, rows |-> r] : r \in SeqsUpTo(pool, MaxTypedRows)}

TextTables == Tables(<<"name", "value">>, <<"object", "object">>, TextRowPool)

IntTables == Tables(<<"name", "value">>, <<"object", "Int64">>, IntRowPool)

\* tables that share no column with the others
OtherTables == Tables(<<"code", "label">>, <<"object", "object">>, TextRowPool)

\* the baseline as Home.py typed it and the new table coerced to its families:
\* a common column has the same family on both sides
InitTypedDiff ==
    /\ \/ base_df \in TextTables /\ new_df \in TextTables \cup OtherTables
       \/ base_df \in IntTables /\ new_df \in IntTables \cup OtherTables
    /\ diff = NoDiff
    /\ session = NoSession
    /\ pc = "compare"
    /\ cells = <<>>
    /\ dtype = "object"
    /\ vals = <<>>
    /\ conversions = <<>>
    /\ result = FALSE

SpecTypedDiff == InitTypedDiff /\ [][NextRowDiff]_vars

----------------------------------------------------------------------------
(* Claims about the row comparison *)

\* how many elements of sequence q satisfy P
CountSeq(q, r) == Cardinality({i \in DOMAIN q : q[i] = r})

\* the rows of reported changes, without their duplicate index
RowsOf(q) == [i \in DOMAIN q |-> q[i].row]

Max0(n) == IF n > 0 THEN n ELSE 0

\* the rows of a table with every cell in its normal form
NormRows(df) == [i \in DOMAIN df.rows |-> [k \in 1..2 |-> NormalizedCell[df.rows[i][k]]]]

\* C1: for every distinct normalised row r with b occurrences in the baseline
\* and n in the new table, exactly max(n-b,0) added rows and max(b-n,0) removed
\* rows equal r.
C1_MultisetCounts ==
    pc = "compared" =>
        LET B == NormRows(base_df)
            N == NormRows(new_df)
        IN  \A r \in Range(B) \cup Range(N) :
                LET b == CountSeq(B, r)
                    n == CountSeq(N, r)
                IN  /\ CountSeq(RowsOf(diff.added), r) = Max0(n - b)
                    /\ CountSeq(RowsOf(diff.removed), r) = Max0(b - n)

\* two identical rows against three: one added, none removed
C1_Witness ==
    /\ pc = "compared"
    /\ Len(base_df.rows) = 2 /\ Len(new_df.rows) = 3
    /\ Cardinality(Range(NormRows(base_df)) \cup Range(NormRows(new_df))) = 1
    /\ Cardinality(Range(base_df.rows) \cup Range(new_df.rows)) = 2
    /\ Len(diff.added) = 1 /\ Len(diff.removed) = 0

\* C2: a table compared with itself has no added and no removed row.
C2_SelfDiffEmpty ==
    (pc = "compared" /\ new_df = base_df) => (diff.added = <<>> /\ diff.removed = <<>>)

\* a table with a duplicated row and a missing cell, compared with itself
C2_Witness ==
    /\ pc = "compared"
    /\ new_df = base_df
    /\ \E i, j \in DOMAIN base_df.rows : i # j /\ base_df.rows[i] = base_df.rows[j]
    /\ \E i \in DOMAIN base_df.rows : base_df.rows[i][1] = NA
    /\ diff.added = <<>> /\ diff.removed = <<>>

SameRows(p, q) ==
    \A x \in Range(p) \cup Range(q) :
        CountSeq(p, x) = CountSeq(q, x)

\* C3: the added rows of diff(A,B) are the removed rows of diff(B,A), and the
\* removed rows of diff(A,B) are the added rows of diff(B,A).
C3_SwapSymmetry ==
    pc = "compared" =>
        LET A == WithDupIdx(BASE_N)
            B == WithDupIdx(NEW_N)
        IN  /\ SameRows(diff.added, left_only(B, A))
            /\ SameRows(diff.removed, right_only(B, A))

C3_Witness ==
    /\ pc = "compared"
    /\ diff.added # <<>>
    /\ diff.removed # <<>>
    /\ Len(diff.added) # Len(diff.removed)

----------------------------------------------------------------------------
(* The typing loop on columns of repeated labels *)

\* how many times the pattern of five labels is repeated, at most
MaxRepeats == 200

WordLabels == << <<"M", "a", "l", "e">>,
                 <<"F", "e", "m", "a", "l", "e">>,
                 <<"U", "n", "k", "n", "o", "w", "n">> >>

LetterLabels == << <<"M">>, <<"F">>, <<"U">> >>

\* the column in which the pattern L1, L2, L2, L1, L3 is repeated k times
LabelColumn(labels, k) ==
    [x \in Range(labels) |-> IF x = labels[3] THEN k ELSE 2 * k]

InitLabels ==
    /\ cells \in {LabelColumn(labels, k) : labels \in {WordLabels, LetterLabels}, k \in 1..MaxRepeats}
    /\ dtype = "object"
    /\ vals = [t \in DOMAIN cells |-> ObjV(t)]
    /\ conversions = <<>>
    /\ pc = "datetime"
    /\ result = FALSE
    /\ base_df = NoTable
    /\ new_df = NoTable
    /\ diff = NoDiff
    /\ session = NoSession

SpecLabels == InitLabels /\ [][Next]_vars

\* C11: the 1000-row column in which Male, Female, Female, Male, Unknown
\* repeats (400 Male, 400 Female, 200 Unknown) is typed category once the loop
\* body has run.
C11_GenderColumnIsCategory ==
    (pc = "done" /\ cells = LabelColumn(WordLabels, 200)) => dtype = "category"

----------------------------------------------------------------------------
(* pages/05_Incremental Profiling.py: the new file as read, and its        *)
(* coercion to the families of the baseline, for one column named "value"  *)

\* rows of the uploaded column in the coercion specification
MaxCoerceRows == 3

\* a whole number of 21 digits or more is beyond int64 and uint64
IntegerOutOfRange(t) ==
    t # NA /\ AllDigits(str_strip(t)) /\ Len(str_strip(t)) >= 21 /\ Head(str_strip(t)) # "0"

\* the position of the last digit of s that is not a zero
LastNonZero(s) ==
    LET nz == {i \in DOMAIN s : s[i] # "0"}
    IN  CHOOSE i \in nz : \A j \in nz : j <= i

\* pd.to_numeric(..., errors="coerce") as the 05 page meets it: an integer out
\* of range is read as a float (m * 10^-d with d < 0), everything else as in
\* pd_to_numeric
inc_pd_to_numeric(c) ==
    IF IntegerOutOfRange(c)
    THEN LET s == str_strip(c)
         IN  [nan |-> FALSE, m |-> DigitsVal(SubSeq(s, 1, LastNonZero(s))), d |-> LastNonZero(s) - Len(s)]
    ELSE pd_to_numeric(c)

\* read_csv's type inference for one column: int64 when every cell is a whole
\* number, float64 when every filled cell is a number, else object (an
\* integer out of range leaves the column as text)
ReadDtype(b) ==
    LET filled == {t \in DOMAIN b : t # NA}
    IN  IF \E t \in filled : IntegerOutOfRange(t) \/ pd_to_numeric(t).nan THEN "object"
        ELSE IF NA \notin DOMAIN b /\ \A t \in filled : pd_to_numeric(t).d = 0 THEN "int64"
        ELSE "float64"

\* the value read_csv stores for raw cell t in a column of dtype dt
ReadValue(dt, t) == IF dt = "object" THEN ObjV(t) ELSE NumV(pd_to_numeric(t))

\* str(x) of a float64
FloatRepr(x) == IF x.d = 0 THEN FormatNumber(x) \o <<".", "0">> ELSE FormatNumber(x)

\* astype(str) of the value stored for raw cell t in a column of dtype dt
inc_astype_str(dt, t) ==
    IF t = NA THEN <<"n", "a", "n">>
    ELSE IF dt = "int64" THEN FormatNumber(pd_to_numeric(t))
    ELSE IF dt = "float64" THEN FloatRepr(pd_to_numeric(t))
    ELSE t

IncCurrencyChars == {"£", "$", ","}

\* the 05 page's to_numeric_resilient of one cell: no division of percentages
inc_to_numeric_resilient(dt, t) ==
    LET s == str_strip(inc_astype_str(dt, t))
    IN  IF s \in BlankStrings THEN NaN
        ELSE inc_pd_to_numeric(RemoveChars(RemoveChars(s, IncCurrencyChars), {"%"}))

\* Series.round(0): to the nearest whole number, a half to the even one
round0(x) ==
    IF x.nan \/ x.d <= 0 THEN x
    ELSE LET p == Pow10(x.d)
             q == x.m \div p
             r == x.m % p
         IN  Num(IF 2 * r > p \/ (2 * r = p /\ q % 2 = 1) THEN q + 1 ELSE q, 0)

\* astype("Int64") of a float that no int64 equals raises TypeError
BeyondInt64(x) == ~x.nan /\ x.d < 0

dtype_family(dtype_str) ==
    IF dtype_str = "datetime64[ns]" THEN "datetime"
    ELSE IF dtype_str \in {"boolean", "bool"} THEN "boolean"
    ELSE IF dtype_str \in {"Int64", "int64"} THEN "int"
    ELSE IF dtype_str = "float64" THEN "float"
    ELSE IF dtype_str = "category" THEN "category"
    ELSE "text"

friendly_dtype(dtype_str) ==
    IF dtype_str \in {"float64", "int64", "Int64"} THEN "Numeric"
    ELSE IF dtype_str \in {"object", "string"} THEN "Text"
    ELSE IF dtype_str = "category" THEN "Category"
    ELSE IF dtype_str \in {"bool", "boolean"} THEN "Boolean"
    ELSE IF dtype_str = "datetime64[ns]" THEN "Date/Time"
    ELSE dtype_str

\* schema_family = {c: dtype_family(str(dt)) for c, dt in BASE.dtypes.items()}
schema_family ==
    [c \in Range(base_df.columns) |-> dtype_family(base_df.dtypes[ColIndex(base_df, c)])]

\* the dtype a branch of coerce_to_schema assigns
CoercedDtype(fam) ==
    IF fam = "datetime" THEN "datetime64[ns]"
    ELSE IF fam = "boolean" THEN "boolean"
    ELSE IF fam = "int" THEN "Int64"
    ELSE IF fam = "float" THEN "float64"
    ELSE IF fam = "category" THEN "category"
    ELSE "string"

\* the value a branch of coerce_to_schema assigns to the rows holding raw cell
\* t.  pd.to_datetime reads a number as nanoseconds since 1970-01-01.
CoercedValue(dt, fam, t) ==
    IF fam = "datetime"
    THEN (IF dt = "object"
          THEN (IF pd_to_datetime(t) = 0 THEN NaV ELSE DtV(pd_to_datetime(t)))
          ELSE (IF t = NA THEN NaV ELSE DtV(19700101)))
    ELSE IF fam = "boolean"
    THEN LET tok == str_lower(str_strip(inc_astype_str(dt, t)))
         IN  IF tok \in BOOL_TRUE THEN BoolV(TRUE)
             ELSE IF tok \in BOOL_FALSE THEN BoolV(FALSE)
             ELSE NaV
    ELSE IF fam = "int" THEN NumV(round0(inc_to_numeric_resilient(dt, t)))
    ELSE IF fam = "float" THEN NumV(inc_to_numeric_resilient(dt, t))
    ELSE IF fam = "category"
    THEN (IF t = NA THEN NaV ELSE StrV(str_strip(inc_astype_str(dt, t))))
    ELSE (IF t = NA THEN NaV ELSE StrV(inc_astype_str(dt, t)))

\* the branch for family fam raises on column col (caught by except: pass)
CoerceRaises(dt, col, fam) ==
    fam = "int" /\ \E t \in DOMAIN col : BeyondInt64(inc_to_numeric_resilient(dt, t))

\* coerce_to_schema(NEW_raw_df, schema_family), for the column "value"
coerce_to_schema ==
    /\ pc = "coerce"
    /\ pc' = "coerced"
    /\ IF "value" \notin DOMAIN schema_family
       THEN UNCHANGED <<dtype, vals>>
       ELSE IF CoerceRaises(dtype, cells, schema_family["value"])
       THEN UNCHANGED <<dtype, vals>>
       ELSE /\ dtype' = CoercedDtype(schema_family["value"])
            /\ vals' = [t \in DOMAIN cells |-> CoercedValue(dtype, schema_family["value"], t)]
    /\ UNCHANGED <<cells, conversions, result, base_df, new_df, diff, session>>

added_cols == SelectSeq(new_df.columns, LAMBDA c : c \notin Range(base_df.columns))

removed_cols == SelectSeq(base_df.columns, LAMBDA c : c \notin Range(new_df.columns))

\* the (column, baseline type, new type) of the common columns whose friendly
\* types differ; the new table's only column is "value", of dtype dtype
dtype_changes ==
    LET fb(c) == friendly_dtype(base_df.dtypes[ColIndex(base_df, c)])
        fn    == friendly_dtype(dtype)
        ch    == SelectSeq(common_cols, LAMBDA c : fb(c) # fn)
    IN  [i \in DOMAIN ch |-> <<ch[i], fb(ch[i]), fn>>]

SchemaChanges ==
    /\ pc = "coerced"
    /\ pc' = "reported"
    /\ diff' = [state |-> "schema", added |-> added_cols, removed |-> removed_cols,
                changes |-> dtype_changes]
    /\ UNCHANGED <<cells, dtype, vals, conversions, result, base_df, new_df, session>>

HugeCell == <<"1", "0", "0", "0", "0", "0", "0", "0", "0", "0", "0",
              "0", "0", "0", "0", "0", "0", "0", "0", "0", "0">>

CoerceCells ==
    { NA,
      <<"1">>,
      <<"2", ".", "5">>,
      <<"1", "2", ".", "7">>,
      <<"£", "5">>,
      <<"Y", "e", "s", " ">>,
      <<"2", "0", "2", "0", "-", "0", "1", "-", "0", "2">>,
      <<"a", "b", "c">>,
      HugeCell }

\* the dtypes the typing loop of Home.py leaves in the baseline
BaseDtypes == {"datetime64[ns]", "boolean", "Int64", "float64", "category", "object"}

\* the baseline holds the column "value", or only a column "name"
BaseSchemas ==
    {[columns |-> <<"value">>, dtypes |-> <<d>>] : d \in BaseDtypes}
        \cup {[columns |-> <<"name">>, dtypes |-> <<"object">>]}

\* the state after read_csv_safely_bytes: a column with at least one value
InitCoerce ==
    /\ cells \in {b \in BagsOver(CoerceCells, MaxCoerceRows) : DOMAIN b # {NA}}
    /\ dtype = ReadDtype(cells)
    /\ vals = [t \in DOMAIN cells |-> ReadValue(dtype, t)]
    /\ base_df \in BaseSchemas
    /\ new_df = [columns |-> <<"value">>]
    /\ conversions = <<>>
    /\ pc = "coerce"
    /\ result = FALSE
    /\ diff = NoDiff
    /\ session = NoSession

NextCoerce == coerce_to_schema \/ SchemaChanges

SpecCoerce == InitCoerce /\ [][NextCoerce]_vars

----------------------------------------------------------------------------
(* Claims about the coercion *)

\* the family of the baseline's column "value"
ValueFamily == schema_family["value"]

InMap == "value" \in DOMAIN schema_family

\* C12: once the new column has been coerced, its family is the one the map
\* gives for it, whatever its cells, and no data-type change is reported.
C12_FamilyForced ==
    /\ (pc \in {"coerced", "reported"} /\ InMap) => dtype_family(dtype) = ValueFamily
    /\ (pc = "reported" /\ InMap) => diff.changes = <<>>

\* C13: under the baseline family int, a cell "12.7" of the new column is null
\* after coercion.
C13_NonWholeCellIsNull ==
    (pc = "coerced" /\ InMap /\ ValueFamily = "int" /\ <<"1", "2", ".", "7">> \in DOMAIN cells)
        => vals[<<"1", "2", ".", "7">>] = NaV

\* C14: a column of the new table that the family map does not hold has type
\* Text after coercion, whatever its cells.
C14_UnmappedColumnIsText ==
    (pc = "coerced" /\ ~InMap) => friendly_dtype(dtype) = "Text"

\* C15: coercion converts every column the map holds: afterwards the column has
\* the dtype of its family's branch and each cell holds its converted value
\* (null where the cell does not parse); it is never left as it was read.
C15_ColumnAlwaysConverted ==
    (pc = "coerced" /\ InMap)
        => /\ dtype = CoercedDtype(ValueFamily)
           /\ \A t \in DOMAIN cells :
                  vals[t] = CoercedValue(ReadDtype(cells), ValueFamily, t)

----------------------------------------------------------------------------
(* Claims about the comparison of typed tables *)

NoSharedColumn == Range(base_df.columns) \cap Range(new_df.columns) = {}

\* C16: when the two tables share no column the comparison ends as "not
\* comparable", with no added and no removed rows computed; it ends as
\* "compared" (possibly with no change) only when they share a column.
C16_NotComparable ==
    pc = "compared" =>
        /\ NoSharedColumn => diff = [state |-> "not comparable", added |-> <<>>, removed |-> <<>>]
        /\ ~NoSharedColumn => diff.state = "compared"

\* two tables with rows and no common column, compared
C16_Witness ==
    /\ pc = "compared"
    /\ NoSharedColumn
    /\ base_df.rows # <<>> /\ new_df.rows # <<>>
    /\ diff.state = "not comparable"

\* C17: a missing cell and a cell holding the text of the sentinel have
\* different normal forms: wherever the baseline holds one and the new table
\* the other in a common column, the normalised cells differ.
C17_NullIsNotSentinelText ==
    pc = "compared" =>
        \A i \in DOMAIN base_df.rows, j \in DOMAIN new_df.rows, k \in DOMAIN common_cols :
            (/\ base_df.rows[i][ColIndex(base_df, common_cols[k])] = NA
             /\ new_df.rows[j][ColIndex(new_df, common_cols[k])] = SENT)
                => BASE_N[i][k] # NEW_N[j][k]

\* C18: in an Integer column the values 1 and 2 have different normal forms:
\* a baseline of the single row (a, 1) against a new table of the single row
\* (a, 2) is reported as one removed row and one added row.
C18_IntegerChangeReported ==
    (/\ pc = "compared"
     /\ base_df \in IntTables /\ new_df \in IntTables
     /\ base_df.rows = << << <<"a">>, <<"1">> >> >>
     /\ new_df.rows = << << <<"a">>, <<"2">> >> >>)
        => (Len(diff.added) = 1 /\ Len(diff.removed) = 1)

----------------------------------------------------------------------------
(* Home.to_numeric_resilient called on a series *)

\* rows of the series in the numeric-normalizer specification
MaxSeriesRows == 3

SeriesCells ==
    { NA,
      <<>>,
      <<" ", " ">>,
      <<"n", "a", "n">>,
      <<"N", "a", "N">>,
      <<"N", "o", "n", "e">>,
      <<"N", "O", "N", "E">>,
      <<"a", "b", "c">>,
      <<"£", "1", ",", "0", "0", "0">>,
      <<" ", "5", "0", "%">>,
      <<"-", "1", "2", ".", "7", " ">>,
      <<"Â", "5">>,
      <<"$">> }

InitSeries ==
    /\ cells \in BagsOver(SeriesCells, MaxSeriesRows)
    /\ dtype = "object"
    /\ vals = [t \in DOMAIN cells |-> ObjV(t)]
    /\ conversions = <<>>
    /\ pc = "call"
    /\ result = FALSE
    /\ base_df = NoTable
    /\ new_df = NoTable
    /\ diff = NoDiff
    /\ session = NoSession

\* num = to_numeric_resilient(series)
CallToNumeric ==
    /\ pc = "call"
    /\ pc' = "returned"
    /\ dtype' = "float64"
    /\ vals' = [t \in DOMAIN cells |-> NumV(to_numeric_resilient(t))]
    /\ UNCHANGED <<cells, conversions, result, base_df, new_df, diff, session>>

NextSeries == CallToNumeric

SpecSeries == InitSeries /\ [][NextSeries]_vars

\* what the normalizer is to strip: the currency symbols, commas and percent
StrippedSymbols == {"£", "$", ",", "%"}

\* a cell that is null, blank, nan/none in any letter case, or not a decimal
\* number once the symbols are stripped
NotDecimal(t) ==
    \/ t = NA
    \/ str_lower(str_strip(t)) \in {<<>>, <<"n", "a", "n">>, <<"n", "o", "n", "e">>}
    \/ pd_to_numeric(RemoveChars(str_strip(t), StrippedSymbols)).nan

\* C19: the normalizer returns a number or null for every cell, and null for
\* every cell that is null, blank, nan/none in any letter case, or not a
\* decimal number after stripping currency symbols, commas and percent.
C19_NullUnlessDecimal ==
    pc = "returned" =>
        \A t \in DOMAIN cells :
            /\ vals[t].kind \in {"num", "na"}
            /\ NotDecimal(t) => vals[t] = NaV

----------------------------------------------------------------------------
(* The session: the table each key of st.session_state refers to.  A table  *)
(* object is its one column: the cells as read, the dtype the column has    *)
(* now, and whether an operation assigned into the object after it was      *)
(* built.  No two keys ever refer to one object (every store is a copy or a *)
(* move), so a key holds its table.  An action is one run of a page script, *)
(* started by what the user did on the page that the last run displayed;    *)
(* result is the page of the last run and how it ended.                     *)

\* rows of an uploaded file
MaxFileRows == 2

FileCells == { <<"£", "5">>, <<"a", "b", "c">> }

\* the uploaded files: the cells of their one column, row by row; a file
\* repeats one row, so that it has duplicate rows or has none
Files == UNION {[1..k -> {c}] : k \in 1..MaxFileRows, c \in FileCells}

UploadNames == {"new.csv"}

\* what st.file_uploader returns: an uploaded file, or NoUpload for None
Uploads == [name : UploadNames, bytes : Files]

\* the column of a table as a bag
ColumnOf(rows) == [c \in Range(rows) |-> Cardinality({i \in DOMAIN rows : rows[i] = c})]

\* read_csv_safely / read_csv_safely_bytes: a new table
read_csv_safely(f) == [dtype |-> ReadDtype(ColumnOf(f)), rows |-> f, assigned |-> FALSE]

\* df.copy(): a new object with the same column
copy(t) == [t EXCEPT !.assigned = FALSE]

\* the dtype the loop body of Home.py leaves an object column with
TypedDtype(b) ==
    IF DateTimeQualifies(b) THEN "datetime64[ns]"
    ELSE IF BooleanQualifies(b) THEN "boolean"
    ELSE IF NumericQualifies(b) THEN (IF AllWhole(b) THEN "Int64" ELSE "float64")
    ELSE IF looks_categorical(b, BagSize(b)) THEN "category"
    ELSE "object"

\* df[col] = ... of the typing loop, applied to table t: the same object
type_table(t) ==
    IF t.dtype = "object" /\ TypedDtype(ColumnOf(t.rows)) # "object"
    THEN [t EXCEPT !.dtype = TypedDtype(ColumnOf(t.rows)), !.assigned = TRUE]
    ELSE t

\* coerce_to_schema(df_in, schema_fam): the table dfc it returns, a copy
coerced_table(df_in, fam) ==
    IF CoerceRaises(df_in.dtype, ColumnOf(df_in.rows), fam) THEN copy(df_in)
    ELSE [copy(df_in) EXCEPT !.dtype = CoercedDtype(fam)]

\* df.duplicated(keep="first"): the rows that repeat an earlier row
dup_mask(t) == {i \in DOMAIN t.rows : \E j \in 1..(i - 1) : t.rows[j] = t.rows[i]}

n_dups(t) == Cardinality(dup_mask(t))

\* df[mask] with the index renumbered: a new table of the rows at the
\* positions of keep, in order
RowsAt(t, keep) ==
    [copy(t) EXCEPT !.rows = [k \in 1..Cardinality(keep) |->
                           t.rows[CHOOSE i \in keep : Cardinality({j \in keep : j <= i}) = k]]]

\* df.drop_duplicates(keep="first").reset_index(drop=True)
drop_duplicates(t) == RowsAt(t, DOMAIN t.rows \ dup_mask(t))

\* the tables the session refers to
Held ==
    {session.df, session.df_backup, session.inc_new_df,
     session.df_backup_before_dups, session.dups_removed_rows} \ {None, Absent}

NoResult == [page |-> "none", outcome |-> "none"]

InitSession ==
    /\ session = NoSession
    /\ pc = "idle"
    /\ cells = <<>>
    /\ dtype = "object"
    /\ vals = <<>>
    /\ conversions = <<>>
    /\ result = NoResult
    /\ base_df = NoTable
    /\ new_df = NoTable
    /\ diff = NoDiff

Others == <<cells, dtype, vals, conversions, base_df, new_df, diff>>

\* a run of another page does not draw the uploader of the 05 page, and
\* Streamlit drops the value of a widget that a run did not draw
LeaveIncremental(s) == [s EXCEPT !.inc_keyfree_uploader = NoUpload]

\* Home.py:123-124
home_defaults(s) == [s EXCEPT !.df = IF @ = Absent THEN None ELSE @]

\* Home.py:137-144, a file is in the uploader: parse it and store the table
HomeStoreUpload ==
    /\ pc = "idle"
    /\ \E f \in Files :
           session' = [LeaveIncremental(session) EXCEPT !.df = read_csv_safely(f)]
    /\ pc' = "home"
    /\ result' = [page |-> "Home", outcome |-> "running"]
    /\ UNCHANGED Others

\* Home.py:137, no file in the uploader
HomeNoUpload ==
    /\ pc = "idle"
    /\ pc' = "home"
    /\ session' = home_defaults(LeaveIncremental(session))
    /\ result' = [page |-> "Home", outcome |-> "running"]
    /\ UNCHANGED Others

\* Home.py:147-219: df = st.session_state["df"]; the typing loop assigns
\* df[col]; st.session_state["df"] = df
HomeTypeTable ==
    /\ pc = "home"
    /\ pc' = "idle"
    /\ session' = IF session.df = None THEN session
                  ELSE [session EXCEPT !.df = type_table(@)]
    /\ result' = [page |-> "Home", outcome |-> "rendered"]
    /\ UNCHANGED Others

\* the guard of the pages 01 to 04 and the first use of df after it:
\* a warning and st.stop(), an exception raised on None, or the page
page_guard(df) ==
    IF df = Absent THEN "warning"
    ELSE IF df = None THEN "error"
    ELSE "rendered"

\* the guard of the 05 page
inc_page_guard(df) ==
    IF df = Absent \/ df = None THEN "warning" ELSE "rendered"

\* a run of a page that stores nothing in the session
PageRun(p) ==
    /\ pc = "idle"
    /\ session' = LeaveIncremental(session)
    /\ result' = [page |-> p, outcome |-> page_guard(session.df)]
    /\ UNCHANGED pc
    /\ UNCHANGED Others

CompletenessPage == PageRun("01_Completeness")

CardinalityPage == PageRun("02_Cardinality")

DistributionPage == PageRun("03_Distribution")

CorrectnessPage == PageRun("04_Correctness")

\* the last run drew page p to its end, so its buttons can be clicked
Shown(p) == pc = "idle" /\ result.page = p /\ result.outcome \in {"rendered", "compared"}

\* 02_Cardinality.py:139-150: back up a copy, keep the removed rows, store
\* the table without its duplicates
DropDuplicates ==
    /\ Shown("02_Cardinality")
    /\ n_dups(session.df) > 0
    /\ session' = [session EXCEPT !.df_backup_before_dups = copy(session.df),
                                  !.dups_removed_rows = RowsAt(session.df, dup_mask(session.df)),
                                  !.dups_removed_n = n_dups(session.df),
                                  !.df = drop_duplicates(session.df),
                                  !.dups_action = "dropped"]
    /\ UNCHANGED <<pc, result>>
    /\ UNCHANGED Others

\* an undo that pops the keys and keeps the table without the duplicates
UndoDuplicates_keep ==
    /\ Shown("02_Cardinality")
    /\ session.dups_action = "dropped"
    /\ session' = [session EXCEPT
                      !.df_backup_before_dups = None,
                      !.dups_action = "none",
                      !.dups_removed_n = 0,
                      !.dups_removed_rows = None]
    /\ UNCHANGED <<pc, result>>
    /\ UNCHANGED Others

\* 02_Cardinality.py:108-118
UndoDuplicates ==
    /\ Shown("02_Cardinality")
    /\ session.dups_action = "dropped"
    /\ session' = [session EXCEPT
                      !.df = IF session.df_backup_before_dups # None
                             THEN session.df_backup_before_dups ELSE @,
                      !.df_backup_before_dups = None,
                      !.dups_action = "none",
                      !.dups_removed_n = 0,
                      !.dups_removed_rows = None]
    /\ UNCHANGED <<pc, result>>
    /\ UNCHANGED Others

\* 05_Incremental Profiling.py:162-164
persist_upload(s) ==
    IF s.inc_keyfree_uploader # NoUpload
    THEN [s EXCEPT !.inc_new_raw = s.inc_keyfree_uploader.bytes,
                   !.inc_new_name = s.inc_keyfree_uploader.name]
    ELSE s

\* 05_Incremental Profiling.py:178-182: the NEW table built from the stored
\* bytes and the family of the baseline
build_new(raw, BASE) == coerced_table(read_csv_safely(raw), dtype_family(BASE.dtype))

\* 05_Incremental Profiling.py:162-184, from session s: the session where
\* the run stops at the upload prompt or reaches the comparison
inc_run(s) ==
    LET s1 == persist_upload(s)
    IN  IF s1.inc_new_raw = NoBytes THEN s1
        ELSE IF s1.inc_new_df = None
        THEN [s1 EXCEPT !.inc_new_df = build_new(s1.inc_new_raw, s1.df)]
        ELSE s1

\* 05_Incremental Profiling.py:166-175: st.stop() at the upload prompt
inc_outcome(s) == IF persist_upload(s).inc_new_raw = NoBytes THEN "prompt" ELSE "compared"

\* a run of the 05 page with no button clicked, from session s
IncrementalRun(s) ==
    IF inc_page_guard(s.df) = "warning"
    THEN /\ session' = LeaveIncremental(s)
         /\ result' = [page |-> "05_Incremental", outcome |-> "warning"]
    ELSE /\ session' = inc_run(s)
         /\ result' = [page |-> "05_Incremental", outcome |-> inc_outcome(s)]

\* the user opens the 05 page
IncrementalVisit ==
    /\ pc = "idle"
    /\ IncrementalRun(session)
    /\ UNCHANGED pc
    /\ UNCHANGED Others

\* the 05 page drew its uploader and its Clear NEW button
Offered ==
    /\ pc = "idle"
    /\ result.page = "05_Incremental"
    /\ result.outcome \in {"prompt", "compared"}

\* 05_Incremental Profiling.py:153: the user puts a file in the uploader
IncrementalUpload ==
    /\ Offered
    /\ \E u \in Uploads : IncrementalRun([session EXCEPT !.inc_keyfree_uploader = u])
    /\ UNCHANGED pc
    /\ UNCHANGED Others

\* 05_Incremental Profiling.py:155-160
ClearNew ==
    /\ Offered
    /\ session' = [session EXCEPT !.inc_new_raw = NoBytes,
                                  !.inc_new_df = None,
                                  !.inc_new_name = NoName]
    /\ pc' = "rerun"
    /\ result' = [page |-> "05_Incremental", outcome |-> "rerun"]
    /\ UNCHANGED Others

\* the run that st.rerun() starts on the 05 page
IncrementalRerun ==
    /\ pc = "rerun"
    /\ IncrementalRun(session)
    /\ pc' = "idle"
    /\ UNCHANGED Others

\* 05_Incremental Profiling.py:306-311: BASE.copy() is the backup, NEW.copy() the dataset
ReplaceDataset ==
    /\ Shown("05_Incremental")
    /\ inc_outcome(session) = "compared"
    /\ session' = [inc_run(session) EXCEPT !.df_backup = copy(session.df),
                                           !.df = copy(inc_run(session).inc_new_df)]
    /\ pc' = "rerun"
    /\ result' = [page |-> "05_Incremental", outcome |-> "rerun"]
    /\ UNCHANGED Others

\* an undo that forgets the backup and keeps the dataset
UndoReplace_keep ==
    /\ Shown("05_Incremental")
    /\ inc_outcome(session) = "compared"
    /\ IF inc_run(session).df_backup # None
       THEN /\ session' = [inc_run(session) EXCEPT !.df_backup = None]
            /\ pc' = "rerun"
            /\ result' = [page |-> "05_Incremental", outcome |-> "rerun"]
       ELSE /\ session' = inc_run(session)
            /\ UNCHANGED <<pc, result>>
    /\ UNCHANGED Others

\* 05_Incremental Profiling.py:314-321
UndoReplace ==
    /\ Shown("05_Incremental")
    /\ inc_outcome(session) = "compared"
    /\ IF inc_run(session).df_backup # None
       THEN /\ session' = [inc_run(session) EXCEPT !.df = inc_run(session).df_backup,
                                                    !.df_backup = None]
            /\ pc' = "rerun"
            /\ result' = [page |-> "05_Incremental", outcome |-> "rerun"]
       ELSE /\ session' = inc_run(session)
            /\ UNCHANGED <<pc, result>>
    /\ UNCHANGED Others

NextSession ==
    \/ HomeStoreUpload \/ HomeNoUpload \/ HomeTypeTable
    \/ CompletenessPage \/ CardinalityPage \/ DistributionPage \/ CorrectnessPage
    \/ DropDuplicates \/ UndoDuplicates
    \/ IncrementalVisit \/ IncrementalUpload \/ ClearNew \/ IncrementalRerun
    \/ ReplaceDataset \/ UndoReplace

SpecSession == InitSession /\ [][NextSession]_vars

\* C20: no operation assigns into a table object the session holds: no key
\* ever refers to a table that was assigned into after it was built, a
\* modified table is a new object.
C20_NoAssignmentIntoHeldTable ==
    \A t \in Held : ~t.assigned

----------------------------------------------------------------------------
(* Duplicate removal and its undo (02_Cardinality.py:104-150).              *)

\* two tables are equal row for row
SameTable(a, b) == a.rows = b.rows /\ a.dtype = b.dtype

\* the four keys that the undo pops are gone
DupsKeysCleared(s) ==
    /\ s.df_backup_before_dups = None
    /\ s.dups_action = "none"
    /\ s.dups_removed_n = 0
    /\ s.dups_removed_rows = None

\* C21: duplicate removal keeps the prior table for its undo.  The backup is
\* present exactly when dups_action is "dropped"; a drop stores as the backup
\* the dataset that was current before it and only a drop or an undo changes
\* the backup; an undo makes the dataset equal to the backup row for row and
\* clears the backup and the three flags.  So a drop followed by an undo
\* gives back the dataset from before the drop.
C21_UndoRestoresDroppedRows ==
    /\ [](session.df_backup_before_dups # None <=> session.dups_action = "dropped")
    /\ [][DropDuplicates =>
             /\ SameTable(session'.df_backup_before_dups, session.df)
             /\ session'.dups_action = "dropped"]_vars
    /\ [][session'.df_backup_before_dups # session.df_backup_before_dups =>
             DropDuplicates \/ UndoDuplicates]_vars
    /\ [][UndoDuplicates =>
             /\ SameTable(session'.df, session.df_backup_before_dups)
             /\ DupsKeysCleared(session')]_vars

\* a drop was undone: the dataset has its duplicate rows again, in a table
\* that is the copy made by the drop
C21_Witness ==
    /\ result.page = "02_Cardinality"
    /\ DupsKeysCleared(session)
    /\ session.df # None /\ session.df # Absent
    /\ n_dups(session.df) > 0
    /\ session.df.dtype = "Int64" /\ ~session.df.assigned
    /\ session.df_backup = None /\ session.inc_new_raw = NoBytes

----------------------------------------------------------------------------
(* The custom rule of the Correctness page (04_Correctness.py:233-255): the *)
(* value of the expression becomes a pass/fail mask over the rows of df.    *)

\* rows of the table the rule runs on
MaxRuleRows == 2
\* elements of the value of the expression
MaxResultLen == 3

\* df.index of a table of n rows: 0 .. n-1
RangeIndex(n) == [i \in 1..n |-> i - 1]

\* the row labels a Series can carry
Labels == 0..MaxResultLen

BoolSeqs(k) == [1..k -> BOOLEAN]

\* the values an expression can return: a list, an array or a Series of
\* booleans (a Series has an index), or something else
RuleResults ==
    UNION { [kind : {"list", "ndarray"}, values : BoolSeqs(k), index : {RangeIndex(k)}]
            \cup [kind : {"Series"}, values : BoolSeqs(k), index : [1..k -> Labels]]
            : k \in 0..MaxResultLen }
    \cup {[kind |-> "scalar", values |-> <<TRUE>>, index |-> <<>>]}

\* the constructor or the conversion raised
Raised == [raised |-> TRUE, mask |-> <<>>]

Mask(m) == [raised |-> FALSE, mask |-> m]

\* pd.Series(result, index=df.index).astype(bool), for a table of n rows.
\* A list or an array must have n elements.  A Series is reindexed to
\* df.index: a label it lacks gives NaN, which astype(bool) makes True, a
\* label it has beyond df.index is dropped, and a Series with a repeated
\* label cannot be reindexed.
mask_ok(r, n) ==
    IF r.kind \in {"list", "ndarray"}
    THEN IF Len(r.values) = n THEN Mask(r.values) ELSE Raised
    ELSE IF r.index = RangeIndex(n) THEN Mask(r.values)
    ELSE IF \E i, j \in DOMAIN r.index : i # j /\ r.index[i] = r.index[j] THEN Raised
    ELSE Mask([i \in 1..n |->
                 IF \E j \in DOMAIN r.index : r.index[j] = i - 1
                 THEN r.values[CHOOSE j \in DOMAIN r.index : r.index[j] = i - 1]
                 ELSE TRUE])

\* lines 240-255: what the page shows for the value r on a table of n rows
custom_rule(r, n) ==
    IF r.kind \notin {"Series", "ndarray", "list"} THEN [state |-> "error", n_bad |-> 0]
    ELSE IF mask_ok(r, n).raised THEN [state |-> "error", n_bad |-> 0]
    ELSE IF Len(mask_ok(r, n).mask) # n THEN [state |-> "error", n_bad |-> 0]
    ELSE [state |-> "failures",
          n_bad |-> Cardinality({i \in 1..n : ~mask_ok(r, n).mask[i]})]

InitRule ==
    /\ cells \in {RangeIndex(n) : n \in 1..MaxRuleRows}
    /\ result \in RuleResults
    /\ diff = NoDiff
    /\ pc = "expr"
    /\ dtype = "object"
    /\ vals = <<>>
    /\ conversions = <<>>
    /\ base_df = NoTable
    /\ new_df = NoTable
    /\ session = NoSession

\* the expression was evaluated to result: validate it and report
CustomRule ==
    /\ pc = "expr"
    /\ pc' = "shown"
    /\ diff' = custom_rule(result, Len(cells))
    /\ UNCHANGED <<cells, dtype, vals, conversions, result, base_df, new_df, session>>

NextRule == CustomRule

SpecRule == InitRule /\ [][NextRule]_vars

\* C22: a value whose length differs from the number of rows of the table is
\* reported as an error and no rows are counted as failures.
C22_WrongLengthIsError ==
    (pc = "shown" /\ Len(result.values) # Len(cells))
        => (diff.state = "error" /\ diff.n_bad = 0)

----------------------------------------------------------------------------
(* The conversion log of the typing loop (Home.py:168-221) over a table of  *)
(* several columns: base_df is the table as read, dtype the dtypes the loop *)
(* has given its columns so far, pc the position of the column it is at.    *)

\* columns of a typed table
MaxLogCols == 2
\* rows of a typed table
MaxLogRows == 3

LogCells ==
    { NA,
      <<"2", "0", "2", "0", "0", "1", "0", "1">>,
      <<"Y", "e", "s", " ">>,
      <<"1">>,
      <<"£", "5">>,
      <<"a", "b", "c">> }

\* the columns read_csv_safely keeps: a column with no value is dropped
LogColumns == {b \in BagsOver(LogCells, MaxLogRows) : DOMAIN b # {NA}}

ColumnNames == <<"c1", "c2", "c3">>

\* the tables of 1..MaxLogCols columns with the same number of rows
LogTables ==
    UNION {{cs \in [1..k -> LogColumns] : \A i \in 1..k : BagSize(cs[i]) = BagSize(cs[1])} :
              k \in 1..MaxLogCols}

\* the state of one column in the loop body: its dtype and the records
\* appended for it
AsRead(b) == [dtype |-> ReadDtype(b), log |-> <<>>]

\* Home.py:174-178
rule_datetime(b, st) ==
    IF st.dtype = "object" /\ DateTimeQualifies(b)
    THEN [dtype |-> "datetime64[ns]", log |-> Append(st.log, "datetime")]
    ELSE st

\* Home.py:181-189
rule_bool(b, st) ==
    IF st.dtype = "object" /\ BooleanQualifies(b)
    THEN [dtype |-> "boolean", log |-> Append(st.log, "bool")]
    ELSE st

\* rule 3 tried whatever the earlier rules made of the column
rule_numeric_unguarded(b, st) ==
    IF NumericQualifies(b)
    THEN [dtype |-> IF AllWhole(b) THEN "Int64" ELSE "float64",
          log |-> Append(st.log, IF AllWhole(b) THEN "Int64" ELSE "float64")]
    ELSE st

\* Home.py:192-209
rule_numeric(b, st) ==
    IF st.dtype = "object" /\ NumericQualifies(b)
    THEN [dtype |-> IF AllWhole(b) THEN "Int64" ELSE "float64",
          log |-> Append(st.log, IF AllWhole(b) THEN "Int64" ELSE "float64")]
    ELSE st

\* Home.py:213-216
rule_category(b, st) ==
    IF st.dtype = "object" /\ looks_categorical(b, BagSize(b))
    THEN [dtype |-> "category", log |-> Append(st.log, "category")]
    ELSE st

\* the loop body on one column
loop_body(b) ==
    rule_category(b, rule_numeric(b, rule_bool(b, rule_datetime(b, AsRead(b)))))

InitLog ==
    /\ \E cs \in LogTables :
           /\ base_df = [columns |-> SubSeq(ColumnNames, 1, Len(cs)),
                         dtypes |-> [i \in DOMAIN cs |-> ReadDtype(cs[i])],
                         cols |-> cs]
           /\ dtype = [i \in DOMAIN cs |-> ReadDtype(cs[i])]
    /\ conversions = <<>>
    /\ pc = 1
    /\ cells = <<>>
    /\ vals = <<>>
    /\ result = FALSE
    /\ new_df = NoTable
    /\ diff = NoDiff
    /\ session = NoSession

\* one turn of "for col in df.columns"
LoopColumn ==
    /\ pc <= Len(base_df.columns)
    /\ pc' = pc + 1
    /\ dtype' = [dtype EXCEPT ![pc] = loop_body(base_df.cols[pc]).dtype]
    /\ conversions' = conversions \o
           [k \in DOMAIN loop_body(base_df.cols[pc]).log |->
               [col |-> base_df.columns[pc], to |-> loop_body(base_df.cols[pc]).log[k]]]
    /\ UNCHANGED <<cells, vals, result, base_df, new_df, diff, session>>

NextLog == LoopColumn

SpecLog == InitLog /\ [][NextLog]_vars

\* the name the log gives a dtype
LogName(dt) ==
    CASE dt = "datetime64[ns]" -> "datetime"
      [] dt = "boolean" -> "bool"
      [] OTHER -> dt

\* the positions of the records of column i in the log
RecordsOf(i) == {k \in DOMAIN conversions : conversions[k].col = base_df.columns[i]}

----------------------------------------------------------------------------
(* Replace and its undo, Clear NEW and the cache of NEW                     *)
(* (05_Incremental Profiling.py:151-185, 303-323).                          *)

\* the stored NEW upload of session s: raw bytes, coerced table, name
StoredNew(s) == <<s.inc_new_raw, s.inc_new_df, s.inc_new_name>>

\* C24: "Undo last replace" is a one-level undo.  A replace stores as the
\* backup the dataset that was current before it and only a replace or an
\* undo changes the backup; an undo with a backup makes the dataset equal to
\* the backup, clears the backup and leaves the stored NEW upload as it was,
\* also through the rerun it starts; an undo with no backup changes nothing
\* in the session.
C24_UndoReplaceOneLevel ==
    /\ [][ReplaceDataset => session'.df_backup = copy(session.df)]_vars
    /\ [][session'.df_backup # session.df_backup => ReplaceDataset \/ UndoReplace]_vars
    /\ [][UndoReplace =>
             IF session.df_backup # None
             THEN /\ session'.df = session.df_backup
                  /\ session'.df_backup = None
                  /\ StoredNew(session') = StoredNew(session)
             ELSE session' = session]_vars
    /\ [][(pc = "rerun" /\ session.inc_new_raw # NoBytes) => session' = session]_vars

\* a replace was undone and the rerun of the page is about to start
C24_Witness ==
    /\ pc = "rerun"
    /\ session.df_backup = None
    /\ session.inc_new_raw # NoBytes
    /\ session.inc_new_df # None


\* C25: "Clear NEW" forgets the uploaded NEW: the click leaves the dataset
\* and the replace backup as they were, and the run that follows the click
\* finds inc_new_raw, inc_new_df and inc_new_name all None and stops at the
\* upload prompt without comparing.
C25_ClearNewForgets ==
    /\ [][ClearNew => /\ session'.df = session.df
                      /\ session'.df_backup = session.df_backup]_vars
    /\ [][(pc = "rerun" /\ session.inc_new_raw = NoBytes) =>
             /\ StoredNew(session') = <<NoBytes, None, NoName>>
             /\ result'.outcome = "prompt"
             /\ session'.df = session.df
             /\ session'.df_backup = session.df_backup]_vars


\* C26: the cached NEW table is coherent with its inputs: in every run that
\* reaches the comparison, inc_new_df is the table parsed from the stored
\* inc_new_raw and coerced with the families of the current baseline.
C26_CachedNewIsCoherent ==
    (pc = "idle" /\ result.page = "05_Incremental" /\ result.outcome = "compared")
        => session.inc_new_df = build_new(session.inc_new_raw, session.df)

----------------------------------------------------------------------------
(* One file as the baseline and as NEW: Home reads and types it             *)
(* (Home.py:22-57, 168-216), the 05 page reads it again, coerces it to the  *)
(* families of the baseline and compares (05_Incremental Profiling.py:      *)
(* 46-110, 178-279).  The file has the one column "value"; cells is its     *)
(* cells row by row; a cell "NA" is a missing value, its row all-missing.    *)

\* rows of the file
MaxSelfRows == 3

SelfCells ==
    { NA,
      <<"1", "/", "2", "/", "2", "0", "2", "0">>,
      <<"1", "2", ".", "7">>,
      <<"£", "5">>,
      <<"5", "0", "%">>,
      <<"a", "b", "c">> }

\* the files with a value in their column (a column with none is dropped)
SelfFiles == {f \in UNION {[1..k -> SelfCells] : k \in 1..MaxSelfRows} : Range(f) # {NA}}

\* the dtype of the column after Home read and typed the file
home_dtype(b) == IF ReadDtype(b) = "object" THEN TypedDtype(b) ELSE ReadDtype(b)

\* the value Home leaves in a row of column b whose cell is t
home_value(b, t) ==
    IF ReadDtype(b) # "object" THEN ReadValue(ReadDtype(b), t)
    ELSE IF TypedDtype(b) = "datetime64[ns]"
    THEN (IF pd_to_datetime(t) = 0 THEN NaV ELSE DtV(pd_to_datetime(t)))
    ELSE IF TypedDtype(b) = "boolean" THEN BooleanValue(t)
    ELSE IF TypedDtype(b) \in {"Int64", "float64"} THEN NumV(to_numeric_resilient(t))
    ELSE ObjV(t)

\* read_csv_safely of Home and the typing loop
home_table(f) ==
    [columns |-> <<"value">>,
     dtypes |-> <<home_dtype(ColumnOf(f))>>,
     rows |-> [i \in DOMAIN f |-> home_value(ColumnOf(f), f[i])]]

\* df.replace(r"^\s*$", pd.NA, regex=True).dropna(how="all") of
\* read_csv_safely_bytes: the rows that are not entirely missing
not_all_missing(f) == SelectSeq(f, LAMBDA t : t # NA)

\* read_csv_safely_bytes and coerce_to_schema with the family fam
new_table(f, fam) ==
    LET b  == ColumnOf(f)
        dt == ReadDtype(b)
        kept == not_all_missing(f)
    IN  IF CoerceRaises(dt, ColumnOf(kept), fam)
        THEN [columns |-> <<"value">>, dtypes |-> <<dt>>,
              rows |-> [i \in DOMAIN kept |-> ReadValue(dt, kept[i])]]
        ELSE [columns |-> <<"value">>, dtypes |-> <<CoercedDtype(fam)>>,
              rows |-> [i \in DOMAIN kept |-> CoercedValue(dt, fam, kept[i])]]

\* normalize_for_rowdiff on one value of a column of dtype dt: a missing
\* value gets the sentinel; pd.to_datetime reads a number as nanoseconds
\* since 1970-01-01; a text is normalised as a cell of a text column
normalize_value(dt, v) ==
    IF v.kind = "na" THEN SENT
    ELSE IF v.kind = "dt" THEN FormatDate(v.m)
    ELSE IF v.kind = "num" THEN EpochString(v.m \div Pow10(v.d))
    ELSE IF v.kind = "bool" THEN (IF v.b THEN <<"T", "r", "u", "e">> ELSE <<"F", "a", "l", "s", "e">>)
    ELSE normalize_cell(v.s)

normalized(df) == [i \in DOMAIN df.rows |-> <<normalize_value(df.dtypes[1], df.rows[i])>>]

InitSelf ==
    /\ cells \in SelfFiles
    /\ pc = "upload"
    /\ base_df = NoTable
    /\ new_df = NoTable
    /\ diff = NoDiff
    /\ dtype = "object"
    /\ vals = <<>>
    /\ conversions = <<>>
    /\ result = FALSE
    /\ session = NoSession

\* Home: the file becomes the typed baseline
HomeLoad ==
    /\ pc = "upload"
    /\ pc' = "baseline"
    /\ base_df' = home_table(cells)
    /\ UNCHANGED <<cells, dtype, vals, conversions, result, new_df, diff, session>>

\* the 05 page with the same file as NEW: schema changes and row changes
CompareWithItself ==
    /\ pc = "baseline"
    /\ pc' = "compared"
    /\ LET NEW_df == new_table(cells, dtype_family(base_df.dtypes[1]))
           L == WithDupIdx(normalized(base_df))
           R == WithDupIdx(normalized(NEW_df))
       IN  /\ new_df' = NEW_df
           /\ diff' = [state |-> "compared",
                       added_cols |-> {c \in Range(NEW_df.columns) : c \notin Range(base_df.columns)},
                       removed_cols |-> {c \in Range(base_df.columns) : c \notin Range(NEW_df.columns)},
                       dtype_changes |->
                           {c \in {"value"} :
                               friendly_dtype(base_df.dtypes[1]) # friendly_dtype(NEW_df.dtypes[1])},
                       added |-> right_only(L, R),
                       removed |-> left_only(L, R)]
    /\ UNCHANGED <<cells, dtype, vals, conversions, result, base_df, session>>

NextSelf == HomeLoad \/ CompareWithItself

SpecSelf == InitSelf /\ [][NextSelf]_vars

\* C27: a file compared with itself shows no drift: no added or removed
\* column, no data-type change, no added and no removed row.
C27_SelfComparisonShowsNoDrift ==
    pc = "compared" =>
        /\ diff.added_cols = {} /\ diff.removed_cols = {}
        /\ diff.dtype_changes = {}
        /\ diff.added = <<>> /\ diff.removed = <<>>

----------------------------------------------------------------------------
(* The two numeric parses on one text column: Home.to_numeric_resilient     *)
(* (Home.py:59-74) and the to_numeric_resilient of the 05 page              *)
(* (05_Incremental Profiling.py:83-86).                                     *)

InitParse ==
    /\ cells \in BagsOver(SeriesCells, MaxSeriesRows)
    /\ dtype = "object"
    /\ vals = [t \in DOMAIN cells |-> ObjV(t)]
    /\ conversions = <<>>
    /\ pc = "call"
    /\ result = FALSE
    /\ base_df = NoTable
    /\ new_df = NoTable
    /\ diff = NoDiff
    /\ session = NoSession

\* the classifier's parse: Home.to_numeric_resilient(series)
NormalizerParse ==
    /\ base_df = NoTable
    /\ base_df' = [t \in DOMAIN cells |-> NumV(to_numeric_resilient(t))]
    /\ UNCHANGED <<cells, dtype, vals, conversions, pc, result, new_df, diff, session>>

\* the parse of coerce_to_schema: to_numeric_resilient(series) of the 05 page
ReconcilerParse ==
    /\ new_df = NoTable
    /\ new_df' = [t \in DOMAIN cells |-> NumV(inc_to_numeric_resilient(dtype, t))]
    /\ UNCHANGED <<cells, dtype, vals, conversions, pc, result, base_df, diff, session>>

NextParse == NormalizerParse \/ ReconcilerParse

SpecParse == InitParse /\ [][NextParse]_vars

\* C28: for every cell the numeric parse of the Schema Reconciler and the
\* Numeric Normalizer return the same number or both return null.
C28_ParsesAgree ==
    (base_df # NoTable /\ new_df # NoTable) => new_df = base_df

----------------------------------------------------------------------------
(* The undo backups and the operations that install a dataset               *)
(* (Home.py:137-144, 02_Cardinality.py:139-150,                             *)
(* 05_Incremental Profiling.py:306-311).                                    *)

\* an upload on Home, a replace or a duplicate removal stores a new dataset
InstallsDataset == HomeStoreUpload \/ ReplaceDataset \/ DropDuplicates

\* C29: an undo backup is never stale: once an operation has installed a
\* dataset, a stored df_backup is the one that replace made and a stored
\* df_backup_before_dups (dups_action = "dropped") is the one that duplicate
\* removal made, so no undo discards a dataset installed later.
C29_BackupNeverStale ==
    [][InstallsDataset =>
          /\ (session'.df_backup # None => ReplaceDataset)
          /\ (session'.dups_action = "dropped" => DropDuplicates)]_vars

----------------------------------------------------------------------------
(* The guards of the pages (01_Completeness.py:18-23, 02_Cardinality.py:    *)
(* 19-21, 03_Distribution.py, 04_Correctness.py:17-22,                      *)
(* 05_Incremental Profiling.py:19-24).                                      *)

DataPages == {"01_Completeness", "02_Cardinality", "03_Distribution", "04_Correctness", "05_Incremental"}

\* C30: no page computes on a missing dataset: a page run while the session
\* has no df, or df = None after Home ran without an upload, has stopped
\* with the warning before it used the dataset.
C30_MissingDatasetStopsAtWarning ==
    (result.page \in DataPages /\ (session.df = Absent \/ session.df = None))
        => result.outcome = "warning"

====
